---- MODULE Spec2Model ----
(***************************************************************************)
(* The notebook "Homework - Buzzfeed Surveillance Planes Random Forests"   *)
(* as a state machine.  The state is the kernel's namespace (the notebook's *)
(* global variables, each bound or not), the two input files and the       *)
(* output file.  There is one action per code cell that binds a name, may  *)
(* raise, or writes a file; the cells run once each in document order.  A  *)
(* cell that raises leaves the namespace as it was when the exception was  *)
(* thrown, is recorded in `raised`, and the kernel goes on to the next     *)
(* cell (an exception ends a cell, never the kernel).                      *)
(*                                                                         *)
(* Tables are pandas DataFrames: an ordered list of column names and an    *)
(* ordered list of rows, every row carrying its index label.  sklearn is a *)
(* library the notebook calls and does not implement: a fitted estimator   *)
(* is what it was fit on plus a decision function drawn when it is fit.    *)
(***************************************************************************)
EXTENDS Integers, Sequences, FiniteSets

\* ---------------------------------------------------------------- bounds
\* Rows of data/planes_features.csv.
NumPlanes == 3
\* Largest number of rows of data/train.csv.
MaxLabelRows == 2

\* ------------------------------------------------------ program constants
\* train_test_split(X, y, test_size = 0.25), in percent.
test_size == 25
\* RandomForestClassifier(n_estimators = 100, ...): a probability is a count
\* of votes out of n_estimators.
n_estimators == 100
\* .head(200)
head_n == 200

\* ----------------------------------------------------------- cell values
\* A cell of a table is a string, a number or NaN (pandas' missing value).
NaN == [t |-> "nan", s |-> "", n |-> 0]
Str(x) == [t |-> "str", s |-> x, n |-> 0]
Num(x) == [t |-> "num", s |-> "", n |-> x]
isnull(v) == v.t = "nan"

\* The aircraft types of the data, in the order pandas sorts them.
TypeOrder == <<"C182", "T206">>
\* The label strings of data/train.csv.
LabelStrings == {"surveil", "other"}

\* ------------------------------------------------------------ data frames
Range(s) == {s[i] : i \in 1..Len(s)}
SelectIdx(s, Keep(_)) ==
    LET F[i \in 0..Len(s)] ==
            IF i = 0 THEN <<>>
            ELSE IF Keep(s[i]) THEN Append(F[i - 1], s[i]) ELSE F[i - 1]
    IN F[Len(s)]

\* A frame: column names in order, rows in order, and the dtype of the
\* `type` column ("object", or "category" with its categories).
Frame(cols, rows) ==
    [cols |-> cols, rows |-> rows, type_dtype |-> "object", categories |-> <<>>]
NoFrame == Frame(<<>>, <<>>)
Row(idx, v) == [idx |-> idx, v |-> v]
IndexOf(f) == {f.rows[i].idx : i \in 1..Len(f.rows)}
Column(f, c) == [i \in 1..Len(f.rows) |-> f.rows[i].v[c]]

\* pd.read_csv: the file's header and rows, with a fresh RangeIndex.
read_csv(file) ==
    Frame(file.header,
          [i \in 1..Len(file.rows) |-> Row(i - 1, file.rows[i])])

\* pd.merge(left, right, on=key, how='left'): every left row once per right
\* row with the same key, in left order then right order; a left row with no
\* match once, with NaN in the right table's columns; a fresh RangeIndex.
RightColumns(right, key) == SelectIdx(right.cols, LAMBDA c : c # key)
Matches(right, key, k) == SelectIdx(right.rows, LAMBDA r : r.v[key] = k)
JoinedRow(l, r, left, right, key) ==
    [c \in Range(left.cols) \cup Range(RightColumns(right, key)) |->
        IF c \in Range(left.cols) THEN l.v[c] ELSE r.v[c]]
UnmatchedRow(l, left, right, key) ==
    [c \in Range(left.cols) \cup Range(RightColumns(right, key)) |->
        IF c \in Range(left.cols) THEN l.v[c] ELSE NaN]
JoinOne(l, left, right, key) ==
    LET m == Matches(right, key, l.v[key])
    IN IF m = <<>> THEN <<UnmatchedRow(l, left, right, key)>>
       ELSE [j \in 1..Len(m) |-> JoinedRow(l, m[j], left, right, key)]

\* The merge with how='inner': a left row with no match is left out.
merge_inner(left, right, key) ==
    LET F[i \in 0..Len(left.rows)] ==
            IF i = 0 THEN <<>>
            ELSE F[i - 1] \o
                 (IF Matches(right, key, left.rows[i].v[key]) = <<>> THEN <<>>
                  ELSE JoinOne(left.rows[i], left, right, key))
        vs == F[Len(left.rows)]
    IN Frame(left.cols \o RightColumns(right, key),
             [i \in 1..Len(vs) |-> Row(i - 1, vs[i])])
\* The merge as the notebook calls it, with how='left'.
merge(left, right, key) ==
    LET F[i \in 0..Len(left.rows)] ==
            IF i = 0 THEN <<>>
            ELSE F[i - 1] \o JoinOne(left.rows[i], left, right, key)
        vs == F[Len(left.rows)]
    IN Frame(left.cols \o RightColumns(right, key),
             [i \in 1..Len(vs) |-> Row(i - 1, vs[i])])

\* The replacement followed by fillna(0): a missing label becomes 0.
replace_label_fillna(v) ==
    IF v = Str("surveil") THEN Num(1) ELSE Num(0)
\* Series.replace({'surveil': 1, 'other': 0}): the two strings become the
\* two numbers, every other value (NaN included) is left as it is.
replace_label(v) ==
    IF v = Str("surveil") THEN Num(1)
    ELSE IF v = Str("other") THEN Num(0)
    ELSE v
\* frame[c] = frame[c].<f>: column c rewritten value by value.
MapColumn(f, c, Op(_)) ==
    [f EXCEPT !.rows = [i \in 1..Len(f.rows) |->
        [f.rows[i] EXCEPT !.v = [d \in DOMAIN f.rows[i].v |->
            IF d = c THEN Op(f.rows[i].v[d]) ELSE f.rows[i].v[d]]]]]

\* DataFrame.dropna(): the rows with no NaN in any column, index labels kept.
HasNull(f, r) == \E c \in Range(f.cols) : isnull(r.v[c])

\* dropna(subset=['label']): only a missing label drops a row.
dropna_label_only(f) ==
    [f EXCEPT !.rows = SelectIdx(f.rows, LAMBDA r : ~isnull(r.v["label"]))]
\* dropna() without subset: a missing value in any column drops the row.
dropna(f) == [f EXCEPT !.rows = SelectIdx(f.rows, LAMBDA r : ~HasNull(f, r))]

\* The mask negated (notnull): the rows that have a label.
label_notnull(f) ==
    [f EXCEPT !.rows = SelectIdx(f.rows, LAMBDA r : ~isnull(r.v["label"]))]
\* The mask left out: every row.
label_any(f) == f
\* frame[frame.label.isnull()]: the rows whose label is NaN.
label_isnull(f) ==
    [f EXCEPT !.rows = SelectIdx(f.rows, LAMBDA r : isnull(r.v["label"]))]

\* DataFrame.drop(columns=names): KeyError when a name is no column.
drop_raises(f, names) == ~(names \subseteq Range(f.cols))
drop(f, names) ==
    LET cols == SelectIdx(f.cols, LAMBDA c : c \notin names)
    IN [f EXCEPT !.cols = cols,
                 !.rows = [i \in 1..Len(f.rows) |->
                     [f.rows[i] EXCEPT !.v = [c \in Range(cols) |-> f.rows[i].v[c]]]]]

\* frame[name] = values: a new last column, or an existing one overwritten.
SetColumn(f, name, values) ==
    LET cols == IF name \in Range(f.cols) THEN f.cols ELSE Append(f.cols, name)
    IN [f EXCEPT !.cols = cols,
                 !.rows = [i \in 1..Len(f.rows) |->
                     [f.rows[i] EXCEPT !.v = [c \in Range(cols) |->
                         IF c = name THEN values[i] ELSE f.rows[i].v[c]]]]]

\* Series.astype('category'): the categories are the sorted distinct non-null
\* values; .cat.codes is a value's position among them from 0, -1 for NaN.
Categories(f) ==
    SelectIdx(TypeOrder, LAMBDA t : \E i \in 1..Len(f.rows) : f.rows[i].v["type"] = Str(t))
astype_category(f) ==
    [f EXCEPT !.type_dtype = "category", !.categories = Categories(f)]
cat_code(f, v) ==
    IF \E k \in 1..Len(f.categories) : Str(f.categories[k]) = v
    THEN Num((CHOOSE k \in 1..Len(f.categories) : Str(f.categories[k]) = v) - 1)
    ELSE Num(-1)
cat_codes(f) == [i \in 1..Len(f.rows) |-> cat_code(f, f.rows[i].v["type"])]

\* ------------------------------------------------------------------ sklearn
\* train_test_split(X, y, test_size): n_test = ceil(test_size * n) rows go to
\* the test partition and the other n - n_test to the training partition;
\* ValueError when the training partition would be empty.  The rows are
\* taken in the order of a random permutation: the first n_test are the test
\* partition, the rest the training partition.
\* The test partition rounded down: floor(test_size * n).
n_test_floor(n) == (n * test_size) \div 100
n_test(n) == (n * test_size + 99) \div 100
n_train(n) == n - n_test(n)
split_raises(f) == n_train(Len(f.rows)) = 0
permutation(n) ==
    {p \in [1..n -> 1..n] : \A i, j \in 1..n : p[i] = p[j] => i = j}

\* The test partition taken from the head of the table instead of the head of
\* the permutation.
TestRows_unshuffled(f, perm) ==
    [f EXCEPT !.rows = [i \in 1..n_test(Len(f.rows)) |-> f.rows[i]]]
\* The first n_test rows of the permutation.
TestRows(f, perm) ==
    [f EXCEPT !.rows = [i \in 1..n_test(Len(f.rows)) |-> f.rows[perm[i]]]]
\* The rows of the permutation after the first n_test.
TrainRows(f, perm) ==
    [f EXCEPT !.rows = [i \in 1..n_train(Len(f.rows)) |->
                            f.rows[perm[n_test(Len(f.rows)) + i]]]]

\* An estimator object: its class, whether fit has succeeded on it, the index
\* labels and the columns of the table it was fit on, and the decision
\* function fit produced (fit is randomised: random_state is never set).
Seeds == {0, 1}
Estimator(kind) ==
    [kind |-> kind, fitted |-> FALSE, fit_index |-> {}, fit_cols |-> <<>>, seed |-> 0]
NoEstimator == Estimator("none")
Classes(yf) == {yf.rows[i].v["label"] : i \in 1..Len(yf.rows)}
\* fit raises ValueError on an empty table, and LogisticRegression also on
\* labels of a single class.
fit_raises(est, Xf, yf) ==
    \/ Len(Xf.rows) = 0
    \/ est.kind = "LogisticRegression" /\ Cardinality(Classes(yf)) < 2
fit(est, Xf, yf, seed) ==
    [est EXCEPT !.fitted = TRUE, !.fit_index = IndexOf(Xf),
                !.fit_cols = Xf.cols, !.seed = seed]

\* coef_ and feature_importances_ of a fitted estimator: one number per column
\* it was fit on, kept here as the estimator they describe.
NoImportances == [kind |-> "none", fit_index |-> {}, fit_cols |-> <<>>]
ImportancesOf(est) ==
    [kind |-> est.kind, fit_index |-> est.fit_index, fit_cols |-> est.fit_cols]

\* The decision function: the votes for class 1, out of n_estimators, of a
\* row, from the row's feature values alone.
FeatureSum(Xf, r) ==
    LET F[i \in 0..Len(Xf.cols)] ==
            IF i = 0 THEN 0 ELSE F[i - 1] + r.v[Xf.cols[i]].n
    IN F[Len(Xf.cols)]
Votes(est, Xf, r) == (((FeatureSum(Xf, r) * est.seed + 1) % 3) * n_estimators) \div 2
\* predict and predict_proba raise on an estimator that is not fitted, on an
\* empty table and on a table with another number of columns than fit saw.
predict_error(est, Xf) ==
    IF ~est.fitted THEN "NotFittedError"
    ELSE IF Len(Xf.rows) = 0 \/ Len(Xf.cols) # Len(est.fit_cols) THEN "ValueError"
    ELSE ""
predict_raises(est, Xf) == predict_error(est, Xf) # ""
\* predict_proba(X)[:, 1]: the share of votes for class 1.
predict_proba(est, Xf) == [i \in 1..Len(Xf.rows) |-> Num(Votes(est, Xf, Xf.rows[i]))]
\* predict(X): class 1 where it has the majority of the votes.
predict(est, Xf) ==
    [i \in 1..Len(Xf.rows) |->
        Num(IF 2 * Votes(est, Xf, Xf.rows[i]) > n_estimators THEN 1 ELSE 0)]

\* confusion_matrix(y_true, y_pred): one row and one column per class that
\* occurs in either; cell [a, b] counts the rows of true class a predicted b.
confusion_matrix(yt, yp) ==
    LET L == {yt[i] : i \in 1..Len(yt)} \cup {yp[i] : i \in 1..Len(yp)}
    IN [a \in L, b \in L |->
            Cardinality({i \in 1..Len(yt) : yt[i] = a /\ yp[i] = b})]

\* -------------------------------------------------------------------- state
VARIABLES
    planes_features_csv,  \* the file data/planes_features.csv
    train_csv,            \* the file data/train.csv
    spy_planes,           \* the file spy_planes
    written,              \* the names of the files written, in order
    ns,                   \* the kernel's namespace: the value of every name
    bound,                \* the names that are bound in it
    pc,                   \* the cell to run next
    raised                \* the cells that raised, each with its exception

vars == <<planes_features_csv, train_csv, spy_planes, written, ns, bound, pc, raised>>

\* The code cells that bind a name, can change a table or write a file, in
\* document order (cells that only display a value are left out).
CellOrder == <<
    "read_features", "read_labels", "merge_cell", "encode_label",
    "astype_cell", "type_code_cell", "dropna_cell", "drop_columns_1",
    "drop_columns_2", "make_Xy", "split", "lr_fit", "lr_coefficients_1",
    "lr_coefficients_2", "lr_confusion", "tree_fit", "tree_importances",
    "tree_confusion", "rf_fit", "rf_importances", "rf_accuracy", "refit",
    "filter_unlabeled", "scoring_X", "predict_cell", "drop_predicted",
    "predict_proba_cell", "sort_head", "to_csv", "read_back" >>
Position(cell) == CHOOSE i \in 1..Len(CellOrder) : CellOrder[i] = cell
NextCell(cell) ==
    IF Position(cell) = Len(CellOrder) THEN "done" ELSE CellOrder[Position(cell) + 1]
\* Has the cell run already?
Ran(cell) == pc = "done" \/ Position(pc) > Position(cell)

\* The input files.  Every plane has one feature row; the type of the first
\* plane may be missing.  A label row names a plane and one of the two label
\* strings, or names a transponder code that has no feature row.
TypeOf(i, missing) ==
    IF i = missing THEN NaN ELSE Str(TypeOrder[((i - 1) % Len(TypeOrder)) + 1])
FeatureFiles ==
    {[header |-> <<"adshex", "duration", "type">>,
      rows |-> [i \in 1..NumPlanes |->
                  [adshex |-> Num(i), duration |-> Num(i), type |-> TypeOf(i, missing)]]]
        : missing \in 0..1}
LabelRows ==
    {[adshex |-> Num(k), label |-> Str(l)] : k \in 1..NumPlanes, l \in LabelStrings}
        \cup {[adshex |-> Num(NumPlanes + 1), label |-> Str("other")]}
LabelFiles ==
    {[header |-> <<"adshex", "label">>, rows |-> rs]
        : rs \in UNION {[1..n -> LabelRows] : n \in 0..MaxLabelRows}}
NoFile == [exists |-> FALSE, header |-> <<>>, rows |-> <<>>]

Init ==
    /\ planes_features_csv \in FeatureFiles
    /\ train_csv \in LabelFiles
    /\ spy_planes = NoFile
    /\ written = <<>>
    /\ ns = [features |-> NoFrame, labels |-> NoFrame, adshex |-> NoFrame,
             df |-> NoFrame, train_df |-> NoFrame, X |-> NoFrame, y |-> NoFrame,
             X_train |-> NoFrame, X_test |-> NoFrame,
             y_train |-> NoFrame, y_test |-> NoFrame,
             clf |-> NoEstimator, model |-> NoEstimator,
             feature_names |-> <<>>, coefficients |-> NoImportances,
             importances |-> NoImportances,
             y_true |-> NoFrame, y_pred |-> <<>>, matrix |-> <<>>,
             new_df |-> NoFrame]
    /\ bound = {}
    /\ pc = CellOrder[1]
    /\ raised = {}

\* What running a cell does to the namespace: the namespace and the bound
\* names it leaves, and the exception it raised ("" when it completed).
Ok(n, names) == [ns |-> n, bound |-> bound \cup names, err |-> ""]
Fail(e) == [ns |-> ns, bound |-> bound, err |-> e]
FailAfter(n, names, e) == [ns |-> n, bound |-> bound \cup names, err |-> e]
Unbound(names) == ~(names \subseteq bound)

Run(cell, out) ==
    /\ pc = cell
    /\ ns' = out.ns
    /\ bound' = out.bound
    /\ raised' = IF out.err = "" THEN raised ELSE raised \cup {<<cell, out.err>>}
    /\ pc' = NextCell(cell)
    /\ UNCHANGED <<planes_features_csv, train_csv>>

\* features = pd.read_csv('data/planes_features.csv')
read_features ==
    /\ Run("read_features",
           Ok([ns EXCEPT !.features = read_csv(planes_features_csv)], {"features"}))
    /\ UNCHANGED <<spy_planes, written>>

\* labels = pd.read_csv('data/train.csv')
read_labels ==
    /\ Run("read_labels", Ok([ns EXCEPT !.labels = read_csv(train_csv)], {"labels"}))
    /\ UNCHANGED <<spy_planes, written>>

\* adshex = pd.merge(features, labels, on='adshex', how='left')
merge_outcome ==
    IF Unbound({"features", "labels"}) THEN Fail("NameError")
    ELSE Ok([ns EXCEPT !.adshex = merge(ns.features, ns.labels, "adshex")], {"adshex"})
merge_cell ==
    /\ Run("merge_cell", merge_outcome)
    /\ UNCHANGED <<spy_planes, written>>

\* adshex['label'] = adshex.label.replace({'surveil': 1, 'other': 0})
encode_label_outcome ==
    IF Unbound({"adshex"}) THEN Fail("NameError")
    ELSE Ok([ns EXCEPT !.adshex = MapColumn(ns.adshex, "label", replace_label)], {})
encode_label ==
    /\ Run("encode_label", encode_label_outcome)
    /\ UNCHANGED <<spy_planes, written>>

\* df.type = df.type.astype('category')
astype_outcome ==
    IF Unbound({"df"}) THEN Fail("NameError")
    ELSE IF "type" \notin Range(ns.df.cols) THEN Fail("AttributeError")
    ELSE Ok([ns EXCEPT !.df = astype_category(ns.df)], {})
astype_cell ==
    /\ Run("astype_cell", astype_outcome)
    /\ UNCHANGED <<spy_planes, written>>

\* adshex['type_code'] = adshex.type.cat.codes
type_code_outcome ==
    IF Unbound({"adshex"}) THEN Fail("NameError")
    ELSE IF ns.adshex.type_dtype # "category" THEN Fail("AttributeError")
    ELSE Ok([ns EXCEPT !.adshex = SetColumn(ns.adshex, "type_code", cat_codes(ns.adshex))],
            {})
type_code_cell ==
    /\ Run("type_code_cell", type_code_outcome)
    /\ UNCHANGED <<spy_planes, written>>

\* train_df = adshex.dropna()
dropna_outcome ==
    IF Unbound({"adshex"}) THEN Fail("NameError")
    ELSE Ok([ns EXCEPT !.train_df = dropna(ns.adshex)], {"train_df"})
dropna_cell ==
    /\ Run("dropna_cell", dropna_outcome)
    /\ UNCHANGED <<spy_planes, written>>

\* train_df = train_df.drop(['adshex', 'type'], axis=1)  (the cell is there twice)
drop_columns_outcome ==
    IF Unbound({"train_df"}) THEN Fail("NameError")
    ELSE IF drop_raises(ns.train_df, {"adshex", "type"}) THEN Fail("KeyError")
    ELSE Ok([ns EXCEPT !.train_df = drop(ns.train_df, {"adshex", "type"})], {})
drop_columns_1 ==
    /\ Run("drop_columns_1", drop_columns_outcome)
    /\ UNCHANGED <<spy_planes, written>>
drop_columns_2 ==
    /\ Run("drop_columns_2", drop_columns_outcome)
    /\ UNCHANGED <<spy_planes, written>>

\* X = train_df.drop(columns='label'); y = train_df.label
make_Xy_outcome ==
    IF Unbound({"train_df"}) THEN Fail("NameError")
    ELSE IF drop_raises(ns.train_df, {"label"}) THEN Fail("KeyError")
    ELSE Ok([ns EXCEPT !.X = drop(ns.train_df, {"label"}),
                       !.y = drop(ns.train_df, Range(ns.train_df.cols) \ {"label"})],
            {"X", "y"})
make_Xy ==
    /\ Run("make_Xy", make_Xy_outcome)
    /\ UNCHANGED <<spy_planes, written>>

\* X_train, X_test, y_train, y_test = train_test_split(X, y, test_size = 0.25)
split_outcome(perm) ==
    IF Unbound({"X", "y"}) THEN Fail("NameError")
    ELSE IF split_raises(ns.X) THEN Fail("ValueError")
    ELSE Ok([ns EXCEPT !.X_train = TrainRows(ns.X, perm), !.X_test = TestRows(ns.X, perm),
                       !.y_train = TrainRows(ns.y, perm), !.y_test = TestRows(ns.y, perm)],
            {"X_train", "X_test", "y_train", "y_test"})
split ==
    /\ \E perm \in permutation(Len(ns.X.rows)) : Run("split", split_outcome(perm))
    /\ UNCHANGED <<spy_planes, written>>

\* <target> = <Kind>(...); <target>.fit(<xname>, <yname>): the constructor binds
\* the target to an estimator that is not fitted; fit then fits it in place,
\* or raises and leaves it not fitted.
fit_outcome(target, kind, xname, yname, seed) ==
    LET est == Estimator(kind)
        made == [ns EXCEPT ![target] = est]
    IN IF Unbound({xname, yname}) THEN FailAfter(made, {target}, "NameError")
       ELSE IF fit_raises(est, ns[xname], ns[yname])
            THEN FailAfter(made, {target}, "ValueError")
       ELSE Ok([ns EXCEPT ![target] = fit(est, ns[xname], ns[yname], seed)], {target})

\* clf = LogisticRegression(C=1e9, solver='lbfgs', max_iter=4000); clf.fit(X, y)
lr_fit_outcome(seed) == fit_outcome("clf", "LogisticRegression", "X", "y", seed)
lr_fit ==
    /\ \E seed \in Seeds : Run("lr_fit", lr_fit_outcome(seed))
    /\ UNCHANGED <<spy_planes, written>>

\* feature_names = X.columns; coefficients = clf.coef_[0]  (the cell is there twice)
coefficients_outcome ==
    IF Unbound({"X"}) THEN Fail("NameError")
    ELSE LET named == [ns EXCEPT !.feature_names = ns.X.cols]
         IN IF Unbound({"clf"}) THEN FailAfter(named, {"feature_names"}, "NameError")
            ELSE IF ns.clf.kind # "LogisticRegression" \/ ~ns.clf.fitted
                 THEN FailAfter(named, {"feature_names"}, "AttributeError")
            ELSE Ok([named EXCEPT !.coefficients = ImportancesOf(ns.clf)],
                    {"feature_names", "coefficients"})
lr_coefficients_1 ==
    /\ Run("lr_coefficients_1", coefficients_outcome)
    /\ UNCHANGED <<spy_planes, written>>
lr_coefficients_2 ==
    /\ Run("lr_coefficients_2", coefficients_outcome)
    /\ UNCHANGED <<spy_planes, written>>

\* label_names = pd.Series(['not surveil', 'surveil']);
\* pd.DataFrame(matrix, columns='Predicted ' + label_names, index='Is ' + label_names):
\* ValueError when the matrix has not one row and one column per label name.
label_names == <<"not surveil", "surveil">>
display_raises(m) ==
    Cardinality(DOMAIN m) # Len(label_names) * Len(label_names)

\* y_true = y_test; y_pred = clf.predict(X_test);
\* matrix = confusion_matrix(y_true, y_pred), then the matrix displayed under
\* the two label names   (the same cell for the logistic regression and for
\* the tree)
confusion_outcome ==
    IF Unbound({"y_test"}) THEN Fail("NameError")
    ELSE LET truth == [ns EXCEPT !.y_true = ns.y_test]
         IN IF Unbound({"clf", "X_test"}) THEN FailAfter(truth, {"y_true"}, "NameError")
            ELSE IF predict_raises(ns.clf, ns.X_test)
                 THEN FailAfter(truth, {"y_true"}, predict_error(ns.clf, ns.X_test))
            ELSE LET pred == predict(ns.clf, ns.X_test)
                     m == confusion_matrix(Column(ns.y_test, "label"), pred)
                     done == [truth EXCEPT !.y_pred = pred, !.matrix = m]
                 IN IF display_raises(m)
                    THEN FailAfter(done, {"y_true", "y_pred", "matrix"}, "ValueError")
                    ELSE Ok(done, {"y_true", "y_pred", "matrix"})
lr_confusion ==
    /\ Run("lr_confusion", confusion_outcome)
    /\ UNCHANGED <<spy_planes, written>>

\* clf = tree.DecisionTreeClassifier(max_depth=5); clf = clf.fit(X_train, y_train)
tree_fit_outcome(seed) ==
    fit_outcome("clf", "DecisionTreeClassifier", "X_train", "y_train", seed)
tree_fit ==
    /\ \E seed \in Seeds : Run("tree_fit", tree_fit_outcome(seed))
    /\ UNCHANGED <<spy_planes, written>>

\* feature_names = X.columns; importances = clf.feature_importances_  (the same
\* cell in the tree section and in the random-forest section)
importances_outcome ==
    IF Unbound({"X"}) THEN Fail("NameError")
    ELSE LET named == [ns EXCEPT !.feature_names = ns.X.cols]
         IN IF Unbound({"clf"}) THEN FailAfter(named, {"feature_names"}, "NameError")
            ELSE IF ns.clf.kind = "LogisticRegression"
                 THEN FailAfter(named, {"feature_names"}, "AttributeError")
            ELSE IF ~ns.clf.fitted
                 THEN FailAfter(named, {"feature_names"}, "NotFittedError")
            ELSE Ok([named EXCEPT !.importances = ImportancesOf(ns.clf)],
                    {"feature_names", "importances"})
tree_importances ==
    /\ Run("tree_importances", importances_outcome)
    /\ UNCHANGED <<spy_planes, written>>

tree_confusion ==
    /\ Run("tree_confusion", confusion_outcome)
    /\ UNCHANGED <<spy_planes, written>>

\* model = RandomForestClassifier(n_estimators = 100, max_depth=5)
\* model.fit(X_train, y_train)
rf_fit_outcome(seed) ==
    fit_outcome("model", "RandomForestClassifier", "X_train", "y_train", seed)
rf_fit ==
    /\ \E seed \in Seeds : Run("rf_fit", rf_fit_outcome(seed))
    /\ UNCHANGED <<spy_planes, written>>

rf_importances ==
    /\ Run("rf_importances", importances_outcome)
    /\ UNCHANGED <<spy_planes, written>>

\* y_pred=model.predict(X_test); metrics.accuracy_score(y_test, y_pred)
rf_accuracy_outcome ==
    IF Unbound({"model", "X_test"}) THEN Fail("NameError")
    ELSE IF predict_raises(ns.model, ns.X_test)
         THEN Fail(predict_error(ns.model, ns.X_test))
    ELSE Ok([ns EXCEPT !.y_pred = predict(ns.model, ns.X_test)], {"y_pred"})
rf_accuracy ==
    /\ Run("rf_accuracy", rf_accuracy_outcome)
    /\ UNCHANGED <<spy_planes, written>>

\* The re-fit on the training partition alone.
refit_on_train(seed) ==
    fit_outcome("clf", "RandomForestClassifier", "X_train", "y_train", seed)
\* clf = RandomForestClassifier(n_estimators = 100, max_depth=5); clf = clf.fit(X, y)
refit_outcome(seed) == fit_outcome("clf", "RandomForestClassifier", "X", "y", seed)
refit ==
    /\ \E seed \in Seeds : Run("refit", refit_outcome(seed))
    /\ UNCHANGED <<spy_planes, written>>

\* new_df = adshex[adshex.label.isnull()]
filter_unlabeled_outcome ==
    IF Unbound({"adshex"}) THEN Fail("NameError")
    ELSE Ok([ns EXCEPT !.new_df = label_isnull(ns.adshex)], {"new_df"})
filter_unlabeled ==
    /\ Run("filter_unlabeled", filter_unlabeled_outcome)
    /\ UNCHANGED <<spy_planes, written>>

\* X = new_df.drop(columns=['label', 'adshex', 'type'], axis=1)
scoring_X_outcome ==
    IF Unbound({"new_df"}) THEN Fail("NameError")
    ELSE IF drop_raises(ns.new_df, {"label", "adshex", "type"}) THEN Fail("KeyError")
    ELSE Ok([ns EXCEPT !.X = drop(ns.new_df, {"label", "adshex", "type"})], {"X"})
scoring_X ==
    /\ Run("scoring_X", scoring_X_outcome)
    /\ UNCHANGED <<spy_planes, written>>

\* X['predicted'] = clf.predict(X)
predict_outcome ==
    IF Unbound({"clf", "X"}) THEN Fail("NameError")
    ELSE IF predict_raises(ns.clf, ns.X) THEN Fail(predict_error(ns.clf, ns.X))
    ELSE Ok([ns EXCEPT !.X = SetColumn(ns.X, "predicted", predict(ns.clf, ns.X))], {})
predict_cell ==
    /\ Run("predict_cell", predict_outcome)
    /\ UNCHANGED <<spy_planes, written>>

\* The cell left out: the scoring table keeps its 'predicted' column.
drop_predicted_skipped ==
    IF Unbound({"X"}) THEN Fail("NameError") ELSE Ok(ns, {})
\* X = X.drop(columns=['predicted'], axis=1)
drop_predicted_outcome ==
    IF Unbound({"X"}) THEN Fail("NameError")
    ELSE IF drop_raises(ns.X, {"predicted"}) THEN Fail("KeyError")
    ELSE Ok([ns EXCEPT !.X = drop(ns.X, {"predicted"})], {})
drop_predicted ==
    /\ Run("drop_predicted", drop_predicted_outcome)
    /\ UNCHANGED <<spy_planes, written>>

\* X['predicted_prob'] = clf.predict_proba(X)[:,1]
predict_proba_outcome ==
    IF Unbound({"clf", "X"}) THEN Fail("NameError")
    ELSE IF predict_raises(ns.clf, ns.X) THEN Fail(predict_error(ns.clf, ns.X))
    ELSE Ok([ns EXCEPT !.X = SetColumn(ns.X, "predicted_prob", predict_proba(ns.clf, ns.X))],
            {})
predict_proba_cell ==
    /\ Run("predict_proba_cell", predict_proba_outcome)
    /\ UNCHANGED <<spy_planes, written>>

\* The order with ascending left at its default, True.
Ascending(f, by, order) ==
    \A i \in 1..(Len(f.rows) - 1) :
        f.rows[order[i]].v[by].n <= f.rows[order[i + 1]].v[by].n
\* DataFrame.sort_values(by=..., ascending=False): the rows by descending
\* value.  The default sort (kind='quicksort') promises no order among rows of
\* equal value: `order` is any permutation that leaves the values descending.
Descending(f, by, order) ==
    \A i \in 1..(Len(f.rows) - 1) :
        f.rows[order[i]].v[by].n >= f.rows[order[i + 1]].v[by].n
SortOrders(f, by) ==
    IF by \notin Range(f.cols) THEN {[i \in 1..Len(f.rows) |-> i]}
    ELSE {order \in permutation(Len(f.rows)) : Descending(f, by, order)}
sort_values(f, order) == [f EXCEPT !.rows = [i \in 1..Len(f.rows) |-> f.rows[order[i]]]]
\* DataFrame.tail(k): the last k rows.
tail(f, k) ==
    [f EXCEPT !.rows = SubSeq(f.rows,
                              IF Len(f.rows) < k THEN 1 ELSE Len(f.rows) - k + 1,
                              Len(f.rows))]
\* DataFrame.head(k): the first k rows, all of them when there are fewer.
head(f, k) ==
    [f EXCEPT !.rows = SubSeq(f.rows, 1, IF Len(f.rows) < k THEN Len(f.rows) ELSE k)]

\* df = X.sort_values(by='predicted_prob', ascending=False).head(200)
sort_head_outcome(order) ==
    IF Unbound({"X"}) THEN Fail("NameError")
    ELSE IF "predicted_prob" \notin Range(ns.X.cols) THEN Fail("KeyError")
    ELSE Ok([ns EXCEPT !.df = head(sort_values(ns.X, order), head_n)], {"df"})
sort_head ==
    /\ \E order \in SortOrders(ns.X, "predicted_prob") : Run("sort_head", sort_head_outcome(order))
    /\ UNCHANGED <<spy_planes, written>>

\* DataFrame.to_csv(name, index=False): the header and the rows' values; the
\* index labels are not written.
to_csv_file(f) ==
    [exists |-> TRUE, header |-> f.cols,
     rows |-> [i \in 1..Len(f.rows) |-> f.rows[i].v]]

\* The scored table written instead of the selection: X.to_csv('spy_planes', index=False)
to_csv_scored ==
    /\ pc = "to_csv"
    /\ pc' = NextCell("to_csv")
    /\ IF Unbound({"X"})
       THEN /\ raised' = raised \cup {<<"to_csv", "NameError">>}
            /\ UNCHANGED <<spy_planes, written>>
       ELSE /\ spy_planes' = to_csv_file(ns.X)
            /\ written' = Append(written, "spy_planes")
            /\ UNCHANGED raised
    /\ UNCHANGED <<planes_features_csv, train_csv, ns, bound>>
\* df.to_csv('spy_planes', index=False)
to_csv ==
    /\ pc = "to_csv"
    /\ pc' = NextCell("to_csv")
    /\ IF Unbound({"df"})
       THEN /\ raised' = raised \cup {<<"to_csv", "NameError">>}
            /\ UNCHANGED <<spy_planes, written>>
       ELSE /\ spy_planes' = to_csv_file(ns.df)
            /\ written' = Append(written, "spy_planes")
            /\ UNCHANGED raised
    /\ UNCHANGED <<planes_features_csv, train_csv, ns, bound>>

\* df = pd.read_csv('spy_planes')
read_back_outcome ==
    IF ~spy_planes.exists THEN Fail("FileNotFoundError")
    ELSE Ok([ns EXCEPT !.df = read_csv(spy_planes)], {"df"})
read_back ==
    /\ Run("read_back", read_back_outcome)
    /\ UNCHANGED <<spy_planes, written>>

Next ==
    \/ read_features \/ read_labels \/ merge_cell \/ encode_label
    \/ astype_cell \/ type_code_cell \/ dropna_cell
    \/ drop_columns_1 \/ drop_columns_2 \/ make_Xy \/ split
    \/ lr_fit \/ lr_coefficients_1 \/ lr_coefficients_2 \/ lr_confusion
    \/ tree_fit \/ tree_importances \/ tree_confusion
    \/ rf_fit \/ rf_importances \/ rf_accuracy
    \/ refit \/ filter_unlabeled \/ scoring_X \/ predict_cell
    \/ drop_predicted \/ predict_proba_cell \/ sort_head \/ to_csv \/ read_back

Spec == Init /\ [][Next]_vars

\* ------------------------------------------------------------------- claims
Raised(cell) == \E e \in raised : e[1] = cell
\* The cell has run and did not raise.
Completed(cell) == Ran(cell) /\ ~Raised(cell)
HasColumn(f, c) == c \in Range(f.cols)
\* The index labels of the merged rows without a label, and of those with one.
UnlabeledIndex ==
    {ns.adshex.rows[i].idx : i \in {j \in 1..Len(ns.adshex.rows) :
                                       isnull(ns.adshex.rows[j].v["label"])}}
LabeledIndex == IndexOf(ns.adshex) \ UnlabeledIndex
\* The merged row with index label k.
MergedRow(k) ==
    ns.adshex.rows[CHOOSE i \in 1..Len(ns.adshex.rows) : ns.adshex.rows[i].idx = k]
\* No transponder code occurs twice in data/train.csv.
UniqueLabelKeys ==
    \A i, j \in 1..Len(train_csv.rows) :
        train_csv.rows[i].adshex = train_csv.rows[j].adshex => i = j
\* The transponder codes of data/planes_features.csv.
FeatureKeys == {planes_features_csv.rows[i].adshex : i \in 1..Len(planes_features_csv.rows)}

\* C1: every estimator whose predictions on the test partition are evaluated
\* (logistic regression, decision tree, random forest) was fit on no row of
\* the test partition.
C1_EvaluatedOnHeldOutRows ==
    /\ (pc = "tree_fit" /\ Completed("lr_confusion"))
          => ns.clf.fit_index \cap IndexOf(ns.X_test) = {}
    /\ (pc = "rf_fit" /\ Completed("tree_confusion"))
          => ns.clf.fit_index \cap IndexOf(ns.X_test) = {}
    /\ (pc = "refit" /\ Completed("rf_accuracy"))
          => ns.model.fit_index \cap IndexOf(ns.X_test) = {}

\* C2: once the training table and the scoring table exist, both carry a
\* type_code column, and two rows of the same type, one in each table, carry
\* the same type_code.
C2_SameTypeCodeInTrainingAndScoring ==
    (Completed("dropna_cell") /\ Completed("filter_unlabeled")) =>
        /\ HasColumn(ns.train_df, "type_code")
        /\ HasColumn(ns.new_df, "type_code")
        /\ \A i \in 1..Len(ns.train_df.rows), j \in 1..Len(ns.new_df.rows) :
              MergedRow(ns.train_df.rows[i].idx).v["type"] = ns.new_df.rows[j].v["type"]
                 => ns.train_df.rows[i].v["type_code"] = ns.new_df.rows[j].v["type_code"]

\* C3: the file written holds, for every row, the transponder code (adshex)
\* and the probability (predicted_prob).
C3_OutputHasTransponderAndScore ==
    spy_planes.exists =>
        /\ {"adshex", "predicted_prob"} \subseteq Range(spy_planes.header)
        /\ \A i \in 1..Len(spy_planes.rows) :
              {"adshex", "predicted_prob"} \subseteq DOMAIN spy_planes.rows[i]

\* C4 as stated: after the merge the merged table has as many rows as the
\* feature table, for every label table.
C4_RowCountForEveryLabelTable ==
    Completed("merge_cell") => Len(ns.adshex.rows) = Len(ns.features.rows)

\* C4 as amended: when no transponder code occurs twice in the label table,
\* the merged table has exactly one row per feature key, in the feature
\* table's order, so as many rows as the feature table (whatever the label
\* table's row count), and in whatever order the label rows come.
Reordered(f, order) == [f EXCEPT !.rows = [i \in 1..Len(f.rows) |-> f.rows[order[i]]]]
C4_OneRowPerFeatureKey ==
    (Completed("merge_cell") /\ UniqueLabelKeys) =>
        /\ Len(ns.adshex.rows) = Len(ns.features.rows)
        /\ Column(ns.adshex, "adshex") = Column(ns.features, "adshex")
        /\ pc = "encode_label" =>
              \A order \in permutation(Len(ns.labels.rows)) :
                 LET m == merge(ns.features, Reordered(ns.labels, order), "adshex")
                 IN /\ Len(m.rows) = Len(ns.features.rows)
                    /\ Column(m, "label") = Column(ns.adshex, "label")
\* The merge has run on a label table of unique keys, not sorted by key, one
\* of whose rows joins a feature row and one of whose rows joins none.
C4_Witness ==
    /\ pc = "encode_label" /\ Completed("merge_cell") /\ UniqueLabelKeys
    /\ Len(train_csv.rows) = 2
    /\ train_csv.rows[1].adshex \notin FeatureKeys
    /\ train_csv.rows[2].adshex \in FeatureKeys
    /\ Len(ns.adshex.rows) # Len(ns.labels.rows)

\* C5: after the label encoding, a merged row whose label was 'surveil' has
\* label 1, one whose label was 'other' has label 0, every row that had a
\* label has 0 or 1, and a row that had none still has none.
OriginalLabels == Column(merge(ns.features, ns.labels, "adshex"), "label")
C5_LabelEncoding ==
    Completed("encode_label") =>
        LET original == OriginalLabels
        IN /\ Len(ns.adshex.rows) = Len(original)
           /\ \A i \in 1..Len(ns.adshex.rows) :
                 LET before == original[i]
                     after == ns.adshex.rows[i].v["label"]
                 IN /\ before = Str("surveil") => after = Num(1)
                    /\ before = Str("other") => after = Num(0)
                    /\ ~isnull(before) => after \in {Num(0), Num(1)}
                    /\ isnull(before) => isnull(after)
\* The encoding has run on a table with a surveillance row, an other row and
\* a row without label.
C5_Witness ==
    /\ Completed("encode_label")
    /\ \E i, j, k \in 1..Len(ns.adshex.rows) :
          /\ ns.adshex.rows[i].v["label"] = Num(1)
          /\ ns.adshex.rows[j].v["label"] = Num(0)
          /\ isnull(ns.adshex.rows[k].v["label"])

\* C6: no row without a label is in the training table or in either
\* partition of the split, and every row without a label is in the scoring
\* table new_df.
C6_UnlabeledRowsOnlyScored ==
    LET unlabeled == UnlabeledIndex
    IN /\ Completed("dropna_cell") => IndexOf(ns.train_df) \cap unlabeled = {}
       /\ Completed("split") =>
             /\ IndexOf(ns.X_train) \cap unlabeled = {}
             /\ IndexOf(ns.X_test) \cap unlabeled = {}
             /\ IndexOf(ns.y_train) \cap unlabeled = {}
             /\ IndexOf(ns.y_test) \cap unlabeled = {}
       /\ Completed("filter_unlabeled") => unlabeled \subseteq IndexOf(ns.new_df)
\* The split and the filter have run on a table with labeled and unlabeled rows.
C6_Witness ==
    /\ Completed("split") /\ Completed("filter_unlabeled")
    /\ UnlabeledIndex # {}
    /\ ns.X_train.rows # <<>> /\ ns.X_test.rows # <<>>
    /\ ns.new_df.rows # <<>>

\* C7 as stated: the training table is exactly the merged rows that have a
\* label, so it has as many rows as there are label rows that join a feature
\* row.
JoinedLabelRows ==
    Cardinality({i \in 1..Len(train_csv.rows) : train_csv.rows[i].adshex \in FeatureKeys})
C7_EveryLabeledRowKept ==
    Completed("dropna_cell") =>
        /\ IndexOf(ns.train_df) = LabeledIndex
        /\ Len(ns.train_df.rows) = JoinedLabelRows

\* C7 as amended: the training table is exactly the merged rows with no
\* missing value in any column: every such row is labeled, a labeled row with
\* a missing value (a missing type) is left out, and the row count is the
\* number of label rows that join a feature row without missing value.
CompleteFeatureKeys ==
    {planes_features_csv.rows[i].adshex :
        i \in {j \in 1..Len(planes_features_csv.rows) :
                  \A c \in DOMAIN planes_features_csv.rows[j] :
                      ~isnull(planes_features_csv.rows[j][c])}}
CompleteJoinedLabelRows ==
    Cardinality({i \in 1..Len(train_csv.rows) :
                    train_csv.rows[i].adshex \in CompleteFeatureKeys})
C7_EveryCompleteRowKept ==
    Completed("dropna_cell") =>
        LET kept == IndexOf(ns.train_df)
        IN /\ \A i \in 1..Len(ns.adshex.rows) :
                 ns.adshex.rows[i].idx \in kept
                    <=> \A c \in Range(ns.adshex.cols) : ~isnull(ns.adshex.rows[i].v[c])
           /\ kept \subseteq LabeledIndex
           /\ Len(ns.train_df.rows) = Cardinality(kept)
           /\ Len(ns.train_df.rows) = CompleteJoinedLabelRows
\* The training table has been made from a merged table with a labeled row
\* that is kept and a labeled row of missing type that is left out.
C7_Witness ==
    /\ Completed("dropna_cell")
    /\ ns.train_df.rows # <<>>
    /\ \E k \in LabeledIndex : isnull(MergedRow(k).v["type"]) /\ k \notin IndexOf(ns.train_df)

\* C8: the split puts every row of the labeled table in exactly one
\* partition: the two partitions have no row in common, no row twice, and
\* together they are the labeled table; the labels are split as the features.
IndexColumn(f) == [i \in 1..Len(f.rows) |-> f.rows[i].idx]
Scored == Completed("predict_cell") \/ Completed("predict_proba_cell")
C10_EveryUnlabeledRowScoredOnce ==
    Completed("predict_proba_cell") =>
        /\ HasColumn(ns.X, "predicted_prob")
        /\ IndexOf(ns.X) = UnlabeledIndex
        /\ Len(ns.X.rows) = Cardinality(UnlabeledIndex)
        /\ \A i \in 1..Len(ns.X.rows) :
              /\ ns.X.rows[i].v["predicted_prob"].t = "num"
              /\ ns.X.rows[i].v["predicted_prob"].n \in 0..n_estimators
        /\ IndexOf(ns.X) \cap LabeledIndex = {}
        /\ ~HasColumn(ns.train_df, "predicted_prob")
        /\ ~HasColumn(ns.adshex, "predicted_prob")
\* Two unlabeled rows have been given different probabilities, with a labeled
\* row in the merged table.
C10_Witness ==
    /\ Completed("predict_proba_cell")
    /\ LabeledIndex # {}
    /\ \E i, j \in 1..Len(ns.X.rows) :
          ns.X.rows[i].v["predicted_prob"] # ns.X.rows[j].v["predicted_prob"]

\* C11: the table selected for output has min(head_n, number of unlabeled
\* rows) rows, each a scored row taken once, its probabilities never rise
\* from one row to the next, and no scored row left out has a higher
\* probability than a row kept; the file written has the same rows.  The
\* same holds of the selection of the first k rows for every k up to the
\* number of scored rows, whatever order the sort leaves tied rows in.
ProbOf(r) == r.v["predicted_prob"].n
Min(a, b) == IF a < b THEN a ELSE b
NonIncreasing(f) ==
    \A i \in 1..(Len(f.rows) - 1) : ProbOf(f.rows[i]) >= ProbOf(f.rows[i + 1])
NoneLeftOutHigher(kept, all) ==
    \A i \in 1..Len(all.rows) :
        all.rows[i].idx \notin IndexOf(kept) =>
            \A j \in 1..Len(kept.rows) : ProbOf(all.rows[i]) <= ProbOf(kept.rows[j])
TopK(all, k, kept) ==
    /\ Len(kept.rows) = Min(k, Len(all.rows))
    /\ IndexOf(kept) \subseteq IndexOf(all)
    /\ Cardinality(IndexOf(kept)) = Len(kept.rows)
    /\ NonIncreasing(kept)
    /\ NoneLeftOutHigher(kept, all)
Selected == pc = "to_csv" /\ Completed("sort_head")
RowPosition(f, k) == CHOOSE i \in 1..Len(f.rows) : f.rows[i].idx = k
C12_TiesKeepOriginalOrder ==
    Selected =>
        \A i, j \in 1..Len(ns.df.rows) :
            (i < j /\ ProbOf(ns.df.rows[i]) = ProbOf(ns.df.rows[j])) =>
                RowPosition(ns.X, ns.df.rows[i].idx) < RowPosition(ns.X, ns.df.rows[j].idx)

\* C12 as amended: the selected table holds scored rows unchanged, none
\* twice; a row of higher probability comes before every row of lower
\* probability; the order among rows of equal probability is not fixed, and
\* the probabilities of the selected table, row by row, are the same
\* whatever that order is.
C12_OrderedByProbabilityAlone ==
    Selected =>
        /\ \A i \in 1..Len(ns.df.rows) :
              /\ ns.df.rows[i].idx \in IndexOf(ns.X)
              /\ ns.df.rows[i] = ns.X.rows[RowPosition(ns.X, ns.df.rows[i].idx)]
        /\ \A i, j \in 1..Len(ns.df.rows) :
              /\ (i # j) => ns.df.rows[i].idx # ns.df.rows[j].idx
              /\ ProbOf(ns.df.rows[i]) > ProbOf(ns.df.rows[j]) => i < j
        /\ \A order \in SortOrders(ns.X, "predicted_prob") :
              Column(head(sort_values(ns.X, order), head_n), "predicted_prob")
                 = Column(ns.df, "predicted_prob")
\* The selection has put two rows of equal probability in the reverse of
\* their order in the scored table.
C12_Witness ==
    /\ Selected
    /\ \E i, j \in 1..Len(ns.df.rows) :
          /\ i < j /\ ProbOf(ns.df.rows[i]) = ProbOf(ns.df.rows[j])
          /\ RowPosition(ns.X, ns.df.rows[i].idx) > RowPosition(ns.X, ns.df.rows[j].idx)

\* C13: once the type_code cell has run, the merged table has a type_code
\* column; two rows carry the same code exactly when they carry the same
\* type, so there are as many codes among the rows with a type as there are
\* type strings, and a row with no type carries the one code kept for that.
TypeStrings ==
    {ns.adshex.rows[i].v["type"] : i \in 1..Len(ns.adshex.rows)} \ {NaN}
C13_TypeCodeIsABijection ==
    Ran("type_code_cell") =>
        /\ HasColumn(ns.adshex, "type_code")
        /\ \A i, j \in 1..Len(ns.adshex.rows) :
              (ns.adshex.rows[i].v["type"] = ns.adshex.rows[j].v["type"])
                 <=> (ns.adshex.rows[i].v["type_code"] = ns.adshex.rows[j].v["type_code"])
        /\ Cardinality({ns.adshex.rows[i].v["type_code"] :
                           i \in {j \in 1..Len(ns.adshex.rows) :
                                     ~isnull(ns.adshex.rows[j].v["type"])}})
              = Cardinality(TypeStrings)
        /\ \A i \in 1..Len(ns.adshex.rows) :
              isnull(ns.adshex.rows[i].v["type"])
                 <=> ns.adshex.rows[i].v["type_code"] = Num(-1)

\* C14: the confusion matrix a confusion cell has computed on the test
\* partition has one row and one column for each of the two classes, and its
\* four cells add up to the number of rows of the test partition.
BothClasses == {Num(0), Num(1)}
MatrixCell(m, a, b) == IF <<a, b>> \in DOMAIN m THEN m[a, b] ELSE 0
Evaluated(cell) == pc = NextCell(cell) /\ "matrix" \in bound
C14_ConfusionMatrixIsTwoByTwo ==
    \A cell \in {"lr_confusion", "tree_confusion"} :
        Evaluated(cell) =>
            /\ DOMAIN ns.matrix = BothClasses \X BothClasses
            /\ MatrixCell(ns.matrix, Num(0), Num(0)) + MatrixCell(ns.matrix, Num(0), Num(1))
                  + MatrixCell(ns.matrix, Num(1), Num(0)) + MatrixCell(ns.matrix, Num(1), Num(1))
                  = Len(ns.X_test.rows)

\* C15: when the split completes on n rows, the test partition has
\* ceiling(n / 4) rows (the one rounding policy: a quarter of n rounded up,
\* 150 for n = 597) and the training partition the other n - ceiling(n / 4)
\* (447 for n = 597); neither is empty, and the labels are split in the same
\* sizes.
C15_TestPartitionIsQuarterRoundedUp ==
    Completed("split") =>
        LET n == Len(ns.train_df.rows)
            t == Len(ns.X_test.rows)
        IN /\ 4 * t >= n /\ 4 * (t - 1) < n
           /\ Len(ns.X_train.rows) = n - t
           /\ Len(ns.y_test.rows) = t /\ Len(ns.y_train.rows) = n - t
           /\ t >= 1 /\ n - t >= 1
           /\ n_test(597) = 150 /\ n_train(597) = 447
\* The split has run on a number of rows that is no multiple of four, so a
\* quarter of it rounded down and rounded up differ.
C15_Witness ==
    /\ Completed("split")
    /\ Len(ns.train_df.rows) % 4 # 0
    /\ Len(ns.X_test.rows) = 1 /\ Len(ns.X_train.rows) = 1

\* C16: no cell raises (no name is used unbound, no column is missing), and
\* once the cell that writes the output file has run, the file is there.
C16_EveryCellCompletes ==
    /\ raised = {}
    /\ Ran("to_csv") => spy_planes.exists

\* C17: the coefficients shown in the logistic-regression section are those
\* of the logistic regression, the importances shown in the tree section
\* those of the decision tree, and the importances shown in the
\* random-forest section those of the random forest fit in that section.
C17_ImportancesOfTheSectionsClassifier ==
    /\ (pc = "lr_confusion" /\ Completed("lr_coefficients_2")) =>
          ns.coefficients.kind = "LogisticRegression"
    /\ (pc = "tree_confusion" /\ Completed("tree_importances")) =>
          ns.importances.kind = "DecisionTreeClassifier"
    /\ (pc = "rf_accuracy" /\ Completed("rf_importances")) =>
          /\ ns.importances.kind = "RandomForestClassifier"
          /\ ns.importances = ImportancesOf(ns.model)

NotFeatures == {"label", "adshex", "type", "predicted", "predicted_prob"}
ScoringCall(cell) == pc = cell /\ Completed("refit") /\ Completed("scoring_X")
C19_ScoringInputsAreTheFitColumns ==
    /\ \A cell \in {"predict_cell", "predict_proba_cell"} :
          ScoringCall(cell) =>
              /\ ns.X.cols = ns.clf.fit_cols
              /\ ns.X.cols = drop(ns.train_df, {"label"}).cols
              /\ Range(ns.X.cols) \cap NotFeatures = {}
    /\ (pc = "drop_predicted" /\ Completed("predict_cell")) =>
          ns.X.cols = Append(ns.clf.fit_cols, "predicted")
    /\ (pc = "sort_head" /\ Completed("predict_proba_cell")) =>
          ns.X.cols = Append(ns.clf.fit_cols, "predicted_prob")
\* predict has been called, its column dropped, and predict_proba is about
\* to be called on a table with rows.
C19_Witness ==
    /\ ScoringCall("predict_proba_cell")
    /\ Completed("predict_cell") /\ Completed("drop_predicted")
    /\ ns.X.rows # <<>> /\ ns.clf.fit_cols # <<>>

====
